---- MODULE Spec2Model ----
(***************************************************************************)
(* State-machine model of the CFG / LL(1) parser toolkit:                  *)
(*   CFGParser.parse_grammar, LL1Parser.compute_first_sets,                *)
(*   compute_follow_sets, build_parsing_table, compute_first_of_string,    *)
(*   parse (parser.py), parse_with_trace, validate_grammar and             *)
(*   prepare_parser (parser1.py).                                          *)
(*                                                                         *)
(* Symbols are strings.  A grammar text is a sequence of lines, a line is  *)
(* the sequence of its whitespace-separated tokens ("->" and "|" are       *)
(* tokens).  Python dicts are functions whose DOMAIN is the key set, so    *)
(* that the key-creating reads of a defaultdict are part of the state.     *)
(* Python's 0-based cursor `index` is kept 0-based.                        *)
(***************************************************************************)
EXTENDS Integers, Sequences, FiniteSets, TLC

\* ------------------------------------------------------------------ bounds
MaxInputLen == 2
MaxSteps == 40
MaxGrammarLines == 2

\* --------------------------------------------------------------- constants
EPS == "ε"
EOI == "$"
None == ""

\* str.isupper() on the symbol universe of the model: the names whose cased
\* characters are all upper case.  Every other token used below ("a", "+",
\* "(", "num", "ε", "$", "s", ...) has isupper() False.
UpperNames == {"S", "A", "B", "E", "T", "F", "EREST", "TREST"}

isupper(s) == s \in UpperNames

\* ------------------------------------------------------------ dict helpers
EmptyDict == [k \in {} |-> {}]

\* d[k] of a defaultdict(set): the value read
Get(d, k) == IF k \in DOMAIN d THEN d[k] ELSE {}

\* d[k] of a defaultdict(set): the key it creates
Touch(d, k) == IF k \in DOMAIN d THEN d ELSE (k :> {}) @@ d

\* d[k] = v  /  d[k].add, d[k].update with the resulting value v
Put(d, k, v) == (k :> v) @@ d

Range(s) == {s[i] : i \in 1..Len(s)}

Reverse(s) == [i \in 1..Len(s) |-> s[Len(s) + 1 - i]]

Production(l, r) == [left |-> l, right |-> r]

\* --------------------------------------------------------- grammar texts
ExprText ==
  << <<"E", "->", "T", "EREST">>,
     <<"EREST", "->", "+", "T", "EREST", "|", "ε">>,
     <<"T", "->", "F", "TREST">>,
     <<"TREST", "->", "*", "F", "TREST", "|", "ε">>,
     <<"F", "->", "(", "E", ")", "|", "num">> >>

GrammarTexts ==
  { ExprText,
    << <<"S", "->", "a", "S", "b", "|", "a", "S", "c">> >>,
    << <<"A", "->", "B", "a", "|", "c">>, <<"B", "->", "A", "b">> >>,
    << <<"A", "->", "c", "|", "B", "a">>, <<"B", "->", "A", "b">> >>,
    << <<"S", "->", "S", "a", "|", "b">> >>,
    << <<"S", "->", "a", "S", "b", "|", "b", "S", "a", "|", "S", "S", "|", "e">> >>,
    << <<"S", "->", "A", "b">>, <<"A", "->", "ε">> >>,
    << <<"S", "->", "A", "B">>, <<"A", "->", "a", "|", "ε">>, <<"B", "->", "b", "|", "ε">> >>,
    << <<"S", "->", "A", "ε">>, <<"A", "->", "a">> >>,
    << <<"S", "->", "a", "A">>, <<"A", "->", "b", "A", "|", "ε">> >>,
    << <<"S", "->", "a">> >>,
    << <<"S", "->", "$", "$">> >>,
    << <<"S", "->", "a", "|">> >>,
    << <<"S", "->", "a", "|", "a">> >>,
    << <<"S", "->", "a", "S", "|", "b">> >>,
    << <<"S", "->", "A">>, <<"A", "->", "S", "|", "a">> >>,
    << <<"s", "->", "a", "s", "|", "b">> >>,
    << <<"S", "a">> >> }

\* the rule texts of a further call of parse_grammar on the same CFGParser
MoreTexts ==
  { << <<"B", "->", "b">> >> }

InputTokens == {"a", "b", "$"}

FixedInputs ==
  { <<"num", "+", "num", "*", "num">>,
    <<"(", "num", "+", "num", ")", "*", "num">>,
    <<"num", "*", "num", "+">>,
    <<"num">>,
    <<"c">>,
    <<"a", "b", "b", "b">> }

RECURSIVE SeqsUpTo(_, _)
SeqsUpTo(S, n) ==
  IF n = 0 THEN {<<>>}
  ELSE LET shorter == SeqsUpTo(S, n - 1)
       IN shorter \cup {Append(s, x) : s \in {t \in shorter : Len(t) = n - 1}, x \in S}

\* the token lists input_string.split() can produce that the model explores
Inputs == SeqsUpTo(InputTokens, MaxInputLen) \cup FixedInputs

\* ---------------------------------------------------- text-level helpers
\* str.split(sep) on a tokenised line: the pieces between occurrences of sep
RECURSIVE SplitOn(_, _)
SplitOn(toks, sep) ==
  IF \A i \in 1..Len(toks) : toks[i] # sep THEN <<toks>>
  ELSE LET k == CHOOSE i \in 1..Len(toks) : toks[i] = sep /\ \A j \in 1..(i - 1) : toks[j] # sep
       IN <<SubSeq(toks, 1, k - 1)>> \o SplitOn(SubSeq(toks, k + 1, Len(toks)), sep)

\* ' '.join-like text of the tokens left of "->" after strip()
RECURSIVE JoinTokens(_)
JoinTokens(toks) ==
  IF toks = <<>> THEN ""
  ELSE IF Len(toks) = 1 THEN toks[1]
  ELSE toks[1] \o " " \o JoinTokens(Tail(toks))


\* ------------------------------------------------------------------ state
VARIABLES
  grammar_text,          \* the rule text handed to parse_grammar (lines of tokens)
  lineno,                \* number of lines parse_grammar has ingested
  productions,           \* CFGParser.productions
  non_terminals,         \* CFGParser.non_terminals
  terminals,             \* CFGParser.terminals
  start_symbol,          \* CFGParser.start_symbol (None is "")
  first,                 \* LL1Parser.first
  follow,                \* LL1Parser.follow
  parsing_table,         \* LL1Parser.parsing_table
  pc,                    \* which method body is executing ("idle": none)
  call,                  \* the method called last
  calls,                 \* how many LL1Parser methods were called so far: 0, 1, or 2 for more
  ret,                   \* what that call returned or raised
  todo,                  \* the code positions to return to, innermost first
  loop,                  \* loop position of the running method: production p, body position i, changed flag
  verdict,               \* return value of the latest validate_grammar
  direct_left_recursive, \* the list validate_grammar reported last
  ambiguous_entries,     \* the conflict dict validate_grammar reported last
  validation_only,       \* parse_grammar was called once, and every call on the LL1Parser
                         \* object so far was validate_grammar or prepare_parser
  first_of_string,       \* the set compute_first_of_string returned when it was the call made last
  input_string,          \* parse: the token list with '$' appended
  stack,                 \* parse: the stack, top is the last element
  index,                 \* parse: the cursor (0-based)
  steps,                 \* parse: loop iterations executed
  production,            \* parse: the production looked up last
  printed                \* parse_with_trace: the rows and lines printed by the latest call

vars == <<grammar_text, lineno, productions, non_terminals, terminals, start_symbol,
          first, follow, parsing_table, pc, todo, call, calls, ret, loop, verdict,
          direct_left_recursive, ambiguous_entries, validation_only, first_of_string,
          input_string,
          stack, index, steps, production, printed>>

cfgVars == <<grammar_text, lineno, productions, non_terminals, terminals, start_symbol>>

setVars == <<first, follow, parsing_table>>

reportedVars == <<verdict, direct_left_recursive, ambiguous_entries>>

reportVars == <<verdict, direct_left_recursive, ambiguous_entries, validation_only>>

sessionVars == <<input_string, stack, index, steps, production, printed, first_of_string>>

NoLoop == [p |-> 0, i |-> 0, changed |-> FALSE]

NoProduction == Production(None, <<>>)

Init ==
  /\ grammar_text \in GrammarTexts
  /\ lineno = 0
  /\ productions = <<>>
  /\ non_terminals = {}
  /\ terminals = {}
  /\ start_symbol = None
  /\ first = EmptyDict
  /\ follow = EmptyDict
  /\ parsing_table = EmptyDict
  /\ pc = "parse_grammar"
  /\ call = "parse_grammar"
  /\ calls = 0
  /\ ret = "running"
  /\ loop = NoLoop
  /\ todo = <<>>
  /\ verdict = "none"
  /\ direct_left_recursive = <<>>
  /\ ambiguous_entries = EmptyDict
  /\ validation_only = TRUE
  /\ first_of_string = {}
  /\ input_string = <<>>
  /\ stack = <<>>
  /\ index = 0
  /\ steps = 0
  /\ production = NoProduction
  /\ printed = <<>>

\* ---------------------------------------------------- CFGParser.parse_grammar
\* the productions one line appends: one per '|' alternative
LineProductions(left, alts) == [k \in 1..Len(alts) |-> Production(left, alts[k])]

LineSymbols(alts) == UNION {Range(alts[k]) : k \in 1..Len(alts)}

\* one iteration of `for line in lines`
ParseGrammarLine ==
  /\ pc = "parse_grammar"
  /\ lineno < Len(grammar_text)
  /\ LET line == grammar_text[lineno + 1]
         parts == SplitOn(line, "->")
     IN IF Len(parts) # 2
        THEN \* left, right = line.split('->') raises ValueError
             /\ pc' = "error"
             /\ ret' = "ValueError"
             /\ UNCHANGED <<lineno, productions, non_terminals, terminals, start_symbol>>
        ELSE LET left == JoinTokens(parts[1])
                 alts == SplitOn(parts[2], "|")
                 syms == LineSymbols(alts)
             IN /\ non_terminals' = non_terminals \cup {left} \cup {s \in syms : isupper(s)}
                /\ terminals' = terminals \cup {s \in syms : ~isupper(s)}
                /\ start_symbol' = IF start_symbol = None THEN left ELSE start_symbol
                /\ productions' = productions \o LineProductions(left, alts)
                /\ lineno' = lineno + 1
                /\ pc' = IF lineno + 1 = Len(grammar_text) THEN "idle" ELSE "parse_grammar"
                /\ ret' = IF lineno + 1 = Len(grammar_text) THEN "None" ELSE "running"
  /\ UNCHANGED <<grammar_text, call, calls, loop, todo>>
  /\ UNCHANGED setVars
  /\ UNCHANGED reportVars
  /\ UNCHANGED sessionVars

\* ------------------------------------------- LL1Parser.compute_first_sets
\* the body of `for prod in self.cfg.productions` for one production
FirstProd(f, prod) ==
  LET f0 == Touch(f, prod.left)
      first_before == Cardinality(f0[prod.left])
  IN IF prod.right = <<>>
     THEN [first |-> Put(f0, prod.left, f0[prod.left] \cup {EPS}), grew |-> FALSE]
     ELSE LET first_symbol == prod.right[1]
              f1 == IF first_symbol \in terminals
                    THEN Put(f0, prod.left, f0[prod.left] \cup {first_symbol})
                    ELSE LET ft == Touch(f0, first_symbol)
                         IN Put(ft, prod.left, ft[prod.left] \cup (ft[first_symbol] \ {EPS}))
          IN [first |-> f1, grew |-> Cardinality(f1[prod.left]) > first_before]

\* --------------------------------------- LL1Parser.compute_first_of_string
RECURSIVE FirstOfStringLoop(_, _, _, _)
FirstOfStringLoop(f, symbols, i, result) ==
  IF i > Len(symbols) THEN [result |-> result, first |-> f, all_nullable |-> TRUE]
  ELSE LET symbol == symbols[i]
       IN IF symbol \in terminals
          THEN [result |-> result \cup {symbol}, first |-> f, all_nullable |-> FALSE]
          ELSE LET ft == Touch(f, symbol)
                   symbol_first == ft[symbol]
                   res == result \cup (symbol_first \ {EPS})
               IN IF EPS \notin symbol_first
                  THEN [result |-> res, first |-> ft, all_nullable |-> FALSE]
                  ELSE FirstOfStringLoop(ft, symbols, i + 1, res)

\* returns the set and the dict self.first as the reads leave it
compute_first_of_string(f, symbols) ==
  IF symbols = <<>> THEN [result |-> {EPS}, first |-> f]
  ELSE LET r == FirstOfStringLoop(f, symbols, 1, {})
       IN [result |-> IF r.all_nullable THEN r.result \cup {EPS} ELSE r.result,
           first |-> r.first]

\* ------------------------------------------ LL1Parser.compute_follow_sets
\* the body of `for i, symbol in enumerate(prod.right)` at position i (1-based)
FollowSym(f, fo, prod, i) ==
  LET symbol == prod.right[i]
      n == Len(prod.right)
  IN IF symbol \notin non_terminals
     THEN [first |-> f, follow |-> fo, grew |-> FALSE]
     ELSE LET fo0 == Touch(fo, symbol)
              follow_before == Cardinality(fo0[symbol])
              next_symbol == prod.right[i + 1]
              f1 == IF i < n /\ next_symbol \notin terminals THEN Touch(f, next_symbol) ELSE f
              fo1 == IF i < n
                     THEN IF next_symbol \in terminals
                          THEN Put(fo0, symbol, fo0[symbol] \cup {next_symbol})
                          ELSE Put(fo0, symbol, fo0[symbol] \cup (f1[next_symbol] \ {EPS}))
                     ELSE fo0
              f2 == IF i = n THEN f1 ELSE Touch(f1, next_symbol)
              propagate == i = n \/ EPS \in f2[next_symbol]
              fo2 == IF propagate
                     THEN LET ft == Touch(fo1, prod.left)
                          IN Put(ft, symbol, ft[symbol] \cup ft[prod.left])
                     ELSE fo1
          IN [first |-> f2, follow |-> fo2, grew |-> Cardinality(fo2[symbol]) > follow_before]

\* loop bookkeeping: move to the next (production, position) that exists,
\* starting a new pass when the for loop ends with changed set
RECURSIVE FollowNorm(_)
FollowNorm(st) ==
  IF st.p > Len(productions)
  THEN IF st.changed THEN FollowNorm([st EXCEPT !.p = 1, !.i = 1, !.changed = FALSE])
       ELSE [st EXCEPT !.done = TRUE]
  ELSE IF st.i > Len(productions[st.p].right)
       THEN FollowNorm([st EXCEPT !.p = st.p + 1, !.i = 1])
       ELSE st

\* self.follow[start_symbol].add('$'); changed = True; enter the while loop
FollowBegin(f, fo) ==
  LET ft == Touch(fo, start_symbol)
  IN FollowNorm([first |-> f, follow |-> Put(ft, start_symbol, ft[start_symbol] \cup {EOI}),
                 p |-> 1, i |-> 1, changed |-> FALSE, done |-> FALSE])

\* one iteration of the inner for loop
FollowStep(st) ==
  LET r == FollowSym(st.first, st.follow, productions[st.p], st.i)
  IN FollowNorm([st EXCEPT !.first = r.first, !.follow = r.follow,
                           !.i = st.i + 1, !.changed = st.changed \/ r.grew])

\* ------------------------------------------ LL1Parser.build_parsing_table
\* self.parsing_table[(left, terminal)] = prod for every terminal in T
AssignAll(table, prod, T) ==
  [k \in DOMAIN table \cup {<<prod.left, t>> : t \in T} |->
     IF k[1] = prod.left /\ k[2] \in T THEN prod ELSE table[k]]

\* the body of `for prod in self.cfg.productions` for one production
BuildProd(f, fo, table, prod) ==
  LET fs == compute_first_of_string(f, prod.right)
      first_string == fs.result
      t1 == AssignAll(table, prod, first_string \ {EPS})
      fo1 == IF EPS \in first_string THEN Touch(fo, prod.left) ELSE fo
      t2 == IF EPS \in first_string THEN AssignAll(t1, prod, fo1[prod.left]) ELSE t1
  IN [first |-> fs.first, follow |-> fo1, table |-> t2]

\* ---------------------------------------------- LL1Parser.validate_grammar
\* the check with the body index off by one: the second symbol is compared
detect_direct_left_recursion_second_symbol ==
  SelectSeq(productions, LAMBDA prod : Len(prod.right) >= 2 /\ prod.right[2] = prod.left)

\* detect_direct_left_recursion: the productions whose body starts with the head
detect_direct_left_recursion ==
  SelectSeq(productions, LAMBDA prod : prod.right # <<>> /\ prod.right[1] = prod.left)

\* detect_indirect_left_recursion (its call in validate_grammar is commented
\* out, lines 322-327).  derivation_graph[left]: the non-terminals other than
\* left in the bodies of left; a key the loop never wrote reads as set()
derivation_graph(left) ==
  UNION {{symbol \in Range(productions[k].right) : symbol \in non_terminals /\ symbol # left} :
           k \in {j \in 1..Len(productions) : productions[j].left = left}}

\* has_path_to_self(start, current, visited): the depth-first search, with
\* the visited set shared by all the recursive calls; SearchNext is its
\* `for next_symbol in derivation_graph[current]` over the symbols left
RECURSIVE SearchPath(_, _, _), SearchNext(_, _, _)
SearchPath(start, current, visited) ==
  IF current = start THEN [found |-> TRUE, visited |-> visited]
  ELSE SearchNext(start, derivation_graph(current), visited \cup {current})

SearchNext(start, symbols, visited) ==
  IF symbols = {} THEN [found |-> FALSE, visited |-> visited]
  ELSE LET next_symbol == CHOOSE x \in symbols : TRUE
       IN IF next_symbol \in visited THEN SearchNext(start, symbols \ {next_symbol}, visited)
          ELSE LET r == SearchPath(start, next_symbol, visited)
               IN IF r.found THEN r ELSE SearchNext(start, symbols \ {next_symbol}, r.visited)

\* has_path_to_self(start, current) as called with visited=None
has_path_to_self(start, current) == SearchPath(start, current, {}).found

detect_indirect_left_recursion == {nt \in non_terminals : has_path_to_self(nt, nt)}

\* the conflict bookkeeping of one `for terminal in ...` loop: a key already
\* in the table with a different production gets [stored, prod] or prod appended
AddConflicts(entries, table, prod, T) ==
  LET hit == {k \in {<<prod.left, t>> : t \in T} : k \in DOMAIN table /\ table[k] # prod}
  IN [k \in DOMAIN entries \cup hit |->
        IF k \in hit
        THEN IF k \in DOMAIN entries THEN Append(entries[k], prod) ELSE <<table[k], prod>>
        ELSE entries[k]]

\* the body of `for prod in self.cfg.productions` of detect_parsing_table_ambiguity
AmbiguityProd(f, fo, table, entries, prod) ==
  LET fs == compute_first_of_string(f, prod.right)
      first_string == fs.result
      e1 == AddConflicts(entries, table, prod, first_string \ {EPS})
      fo1 == IF EPS \in first_string THEN Touch(fo, prod.left) ELSE fo
      e2 == IF EPS \in first_string THEN AddConflicts(e1, table, prod, fo1[prod.left]) ELSE e1
  IN [first |-> fs.first, follow |-> fo1, entries |-> e2]

PyBool(b) == IF b THEN "True" ELSE "False"

\* ------------------------------------------------------- calls and returns
\* pc is the method body or code position executing; todo holds the positions
\* to continue at when the method at pc returns (the call stack).
Goto(labels) ==
  /\ pc' = Head(labels)
  /\ todo' = Tail(labels)
  /\ ret' = "running"
  /\ loop' = NoLoop

\* the method at pc returns: to its caller, or to the user with value
Finish(value) ==
  IF todo = <<>>
  THEN /\ pc' = "idle"
       /\ todo' = <<>>
       /\ ret' = value
       /\ loop' = NoLoop
  ELSE Goto(todo)

\* the call counter: exact up to 1, then "more"
Counted(n) == IF n < 2 THEN n + 1 ELSE 2

\* what the outermost method returns when its last statement is reached
EndValue == IF call = "prepare_parser" THEN "True" ELSE "None"

\* the position of a for loop over the productions (0: not entered yet)
LoopP == IF loop.p = 0 THEN 1 ELSE loop.p

ResetSession ==
  /\ input_string' = <<>>
  /\ stack' = <<>>
  /\ index' = 0
  /\ steps' = 0
  /\ production' = NoProduction
  /\ printed' = <<>>
  /\ first_of_string' = {}

\* a call of a method of LL1Parser that works on the sets and the table
CallMethod(name, labels) ==
  /\ pc = "idle"
  /\ call' = name
  /\ calls' = Counted(calls)
  /\ Goto(labels)
  /\ ResetSession
  /\ validation_only' = (validation_only /\ name \in {"validate_grammar", "prepare_parser"})
  /\ UNCHANGED cfgVars
  /\ UNCHANGED setVars
  /\ UNCHANGED reportedVars

ValidateGrammar == CallMethod("validate_grammar", <<"validate_grammar">>)

\* prepare_parser starts with `if not self.validate_grammar()`
PrepareParser == CallMethod("prepare_parser", <<"validate_grammar", "prepare_parser">>)

ComputeFirstSets == CallMethod("compute_first_sets", <<"compute_first_sets">>)

ComputeFollowSets == CallMethod("compute_follow_sets", <<"compute_follow_sets">>)

BuildParsingTable == CallMethod("build_parsing_table", <<"build_parsing_table">>)

\* the symbol lists a direct call of compute_first_of_string is made with:
\* the bodies of the productions
SymbolStrings == {productions[k].right : k \in 1..Len(productions)}

\* a call of compute_first_of_string(symbols): returns the set and leaves in
\* self.first the keys its reads of the defaultdict created
ComputeFirstOfString ==
  /\ pc = "idle"
  /\ \E symbols \in SymbolStrings :
       LET r == compute_first_of_string(first, symbols)
       IN /\ first' = r.first
          /\ first_of_string' = r.result
  /\ call' = "compute_first_of_string"
  /\ calls' = Counted(calls)
  /\ ret' = "set"
  /\ input_string' = <<>>
  /\ stack' = <<>>
  /\ index' = 0
  /\ steps' = 0
  /\ production' = NoProduction
  /\ printed' = <<>>
  /\ UNCHANGED <<pc, todo, loop, follow, parsing_table>>
  /\ validation_only' = FALSE
  /\ UNCHANGED reportedVars
  /\ UNCHANGED cfgVars

\* a further call of parse_grammar(text) on the CFGParser the LL1Parser
\* holds: its lines are ingested after the ones already ingested
ParseGrammar ==
  /\ pc = "idle"
  /\ \E text \in MoreTexts :
       /\ Len(grammar_text) + Len(text) <= MaxGrammarLines
       /\ grammar_text' = grammar_text \o text
  /\ pc' = "parse_grammar"
  /\ call' = "parse_grammar"
  /\ ret' = "running"
  /\ ResetSession
  /\ UNCHANGED <<lineno, productions, non_terminals, terminals, start_symbol>>
  /\ validation_only' = FALSE
  /\ UNCHANGED <<calls, todo, loop>>
  /\ UNCHANGED setVars
  /\ UNCHANGED reportedVars

\* validate_grammar, step 1: the direct left recursion check; a non-empty list
\* is reported and the method returns False
ValidateStep ==
  /\ pc = "validate_grammar"
  /\ direct_left_recursive' = detect_direct_left_recursion
  /\ ambiguous_entries' = EmptyDict
  /\ IF detect_direct_left_recursion # <<>>
     THEN /\ verdict' = "False"
          /\ Finish("False")
     ELSE /\ verdict' = verdict
          /\ Goto(<<"detect_first">> \o todo)
  /\ UNCHANGED <<call, calls, validation_only>>
  /\ UNCHANGED cfgVars
  /\ UNCHANGED setVars
  /\ UNCHANGED sessionVars

\* detect_parsing_table_ambiguity: `if not self.first: self.compute_first_sets()`
DetectFirst ==
  /\ pc = "detect_first"
  /\ IF DOMAIN first = {}
     THEN Goto(<<"compute_first_sets", "detect_follow">> \o todo)
     ELSE Goto(<<"detect_follow">> \o todo)
  /\ UNCHANGED <<call, calls>>
  /\ UNCHANGED cfgVars
  /\ UNCHANGED setVars
  /\ UNCHANGED reportVars
  /\ UNCHANGED sessionVars

\* detect_parsing_table_ambiguity: `if not self.follow: self.compute_follow_sets()`
DetectFollow ==
  /\ pc = "detect_follow"
  /\ IF DOMAIN follow = {}
     THEN Goto(<<"compute_follow_sets", "detect_scan">> \o todo)
     ELSE Goto(<<"detect_scan">> \o todo)
  /\ UNCHANGED <<call, calls>>
  /\ UNCHANGED cfgVars
  /\ UNCHANGED setVars
  /\ UNCHANGED reportVars
  /\ UNCHANGED sessionVars

\* detect_parsing_table_ambiguity: one iteration of the loop over the
\* productions; after the last one validate_grammar returns its verdict
DetectScanStep ==
  /\ pc = "detect_scan"
  /\ LET entries == IF loop.p = 0 THEN EmptyDict ELSE ambiguous_entries
         r == AmbiguityProd(first, follow, parsing_table, entries, productions[LoopP])
     IN /\ first' = r.first
        /\ follow' = r.follow
        /\ ambiguous_entries' = r.entries
        /\ IF LoopP < Len(productions)
           THEN /\ loop' = [loop EXCEPT !.p = LoopP + 1]
                /\ verdict' = verdict
                /\ UNCHANGED <<pc, todo, ret>>
           ELSE /\ verdict' = PyBool(DOMAIN r.entries = {})
                /\ Finish(PyBool(DOMAIN r.entries = {}))
  /\ UNCHANGED <<parsing_table, call, calls, direct_left_recursive, validation_only>>
  /\ UNCHANGED cfgVars
  /\ UNCHANGED sessionVars

\* prepare_parser after validate_grammar returned: False ends the method,
\* True goes on to compute_first_sets, compute_follow_sets, build_parsing_table
PrepareStep ==
  /\ pc = "prepare_parser"
  /\ IF verdict = "False"
     THEN Finish("False")
     ELSE Goto(<<"compute_first_sets", "compute_follow_sets", "build_parsing_table">>)
  /\ UNCHANGED <<call, calls>>
  /\ UNCHANGED cfgVars
  /\ UNCHANGED setVars
  /\ UNCHANGED reportVars
  /\ UNCHANGED sessionVars

\* compute_first_sets: one iteration of the for loop; at the end of a pass the
\* while loop repeats if changed is set
ComputeFirstStep ==
  /\ pc = "compute_first_sets"
  /\ LET r == FirstProd(first, productions[LoopP])
         changed == loop.changed \/ r.grew
     IN /\ first' = r.first
        /\ IF LoopP < Len(productions)
           THEN /\ loop' = [loop EXCEPT !.p = LoopP + 1, !.changed = changed]
                /\ UNCHANGED <<pc, todo, ret>>
           ELSE IF changed
           THEN /\ loop' = [loop EXCEPT !.p = 1, !.changed = FALSE]
                /\ UNCHANGED <<pc, todo, ret>>
           ELSE Finish(EndValue)
  /\ UNCHANGED <<follow, parsing_table, call, calls>>
  /\ UNCHANGED cfgVars
  /\ UNCHANGED reportVars
  /\ UNCHANGED sessionVars

\* compute_follow_sets: the seeding of FOLLOW(start) on entry, then one
\* iteration of the inner for loop per step
ComputeFollowStep ==
  /\ pc = "compute_follow_sets"
  /\ LET st == IF loop.p = 0
               THEN FollowBegin(first, follow)
               ELSE FollowStep([first |-> first, follow |-> follow, p |-> loop.p, i |-> loop.i,
                                changed |-> loop.changed, done |-> FALSE])
     IN /\ first' = st.first
        /\ follow' = st.follow
        /\ IF st.done
           THEN Finish(EndValue)
           ELSE /\ loop' = [p |-> st.p, i |-> st.i, changed |-> st.changed]
                /\ UNCHANGED <<pc, todo, ret>>
  /\ UNCHANGED <<parsing_table, call, calls>>
  /\ UNCHANGED cfgVars
  /\ UNCHANGED reportVars
  /\ UNCHANGED sessionVars

\* build_parsing_table: one iteration of `for prod in self.cfg.productions`
BuildStep ==
  /\ pc = "build_parsing_table"
  /\ LET r == BuildProd(first, follow, parsing_table, productions[LoopP])
     IN /\ first' = r.first
        /\ follow' = r.follow
        /\ parsing_table' = r.table
  /\ IF LoopP < Len(productions)
     THEN /\ loop' = [loop EXCEPT !.p = LoopP + 1]
          /\ UNCHANGED <<pc, todo, ret>>
     ELSE Finish(EndValue)
  /\ UNCHANGED <<call, calls>>
  /\ UNCHANGED cfgVars
  /\ UNCHANGED reportVars
  /\ UNCHANGED sessionVars

\* --------------------------------------------------- LL1Parser.parse (parser.py)
Pop(stk) == SubSeq(stk, 1, Len(stk) - 1)

\* the push without the test for the body ['ε']
Push_epsilon_body(stk, prod) == stk \o Reverse(prod.right)

\* stack.append(symbol) for symbol in reversed(production.right)
Push(stk, prod) == IF prod.right # <<EPS>> THEN stk \o Reverse(prod.right) ELSE stk

\* one iteration of `while stack`, followed by the loop test: "running" while
\* the loop goes on, else the value returned or the exception raised
ParseBody(table, inp, stk, idx) ==
  LET top == stk[Len(stk)]
      rest == Pop(stk)
      current_input == inp[idx + 1]
  IN IF idx >= Len(inp)
     THEN [stack |-> rest, index |-> idx, production |-> NoProduction, ret |-> "IndexError"]
     ELSE IF top \in terminals \/ top = EOI
     THEN IF top = current_input
          THEN [stack |-> rest, index |-> idx + 1, production |-> NoProduction,
                ret |-> IF rest = <<>> THEN "True" ELSE "running"]
          ELSE [stack |-> rest, index |-> idx, production |-> NoProduction, ret |-> "False"]
     ELSE IF <<top, current_input>> \notin DOMAIN table
     THEN [stack |-> rest, index |-> idx, production |-> NoProduction, ret |-> "False"]
     ELSE LET prod == table[<<top, current_input>>]
              pushed == Push(rest, prod)
          IN [stack |-> pushed, index |-> idx, production |-> prod,
              ret |-> IF pushed = <<>> THEN "True" ELSE "running"]

\* input_string.split() + ['$'], stack = ['$', start_symbol], index = 0
StartSession(tokens) ==
  /\ input_string' = Append(tokens, EOI)
  /\ stack' = <<EOI, start_symbol>>
  /\ index' = 0
  /\ steps' = 0
  /\ production' = NoProduction
  /\ first_of_string' = {}

\* a call of parse(input_string).  The rows the preceding parse_with_trace
\* call printed stay on the terminal when it parsed the same tokens.
Parse ==
  /\ pc = "idle"
  /\ \E tokens \in Inputs :
       /\ StartSession(tokens)
       /\ printed' = IF call = "parse_with_trace" /\ input_string = Append(tokens, EOI)
                     THEN printed ELSE <<>>
  /\ call' = "parse"
  /\ calls' = Counted(calls)
  /\ Goto(<<"parse">>)
  /\ validation_only' = FALSE
  /\ UNCHANGED cfgVars
  /\ UNCHANGED setVars
  /\ UNCHANGED reportedVars

\* one iteration of the while loop of parse
ParseStep ==
  /\ pc = "parse"
  /\ steps < MaxSteps
  /\ LET r == ParseBody(parsing_table, input_string, stack, index)
     IN /\ stack' = r.stack
        /\ index' = r.index
        /\ production' = r.production
        /\ ret' = r.ret
        /\ pc' = IF r.ret = "running" THEN "parse" ELSE "idle"
  /\ steps' = steps + 1
  /\ UNCHANGED <<input_string, printed, first_of_string, call, calls, loop, todo>>
  /\ UNCHANGED cfgVars
  /\ UNCHANGED setVars
  /\ UNCHANGED reportVars

\* --------------------------------------- LL1Parser.parse_with_trace (parser1.py)
\* Production.__str__
ProductionStr(prod) == prod.left \o " → " \o JoinTokens(prod.right)

\* a printed row: the stack top first, the remaining input, the action
Row(stk, inp, idx, action) ==
  [stack |-> Reverse(stk), input |-> SubSeq(inp, idx + 1, Len(inp)), action |-> action]

\* a line printed outside the loop rows
Line(text) == [stack |-> <<>>, input |-> <<>>, action |-> text]

\* one iteration of `while stack`, followed by the loop test: the rows and
\* lines printed, and ret "None" when the method returns
TraceBody(table, inp, stk, idx) ==
  LET top == stk[Len(stk)]
      rest == Pop(stk)
      current_input_symbol == inp[idx + 1]
  IN IF idx >= Len(inp)
     THEN [stack |-> rest, index |-> idx, production |-> NoProduction,
           printed |-> <<>>, ret |-> "IndexError"]
     ELSE IF top \in terminals \/ top = EOI
     THEN IF top = current_input_symbol
          THEN IF idx + 1 >= Len(inp)
               THEN [stack |-> rest, index |-> idx + 1, production |-> NoProduction,
                     printed |-> <<Row(stk, inp, idx, "Match " \o top), Line("Parse successful!")>>,
                     ret |-> "None"]
               ELSE IF rest = <<>>
               THEN [stack |-> rest, index |-> idx + 1, production |-> NoProduction,
                     printed |-> <<Row(stk, inp, idx, "Match " \o top), Line("Parse unsuccessful!")>>,
                     ret |-> "None"]
               ELSE [stack |-> rest, index |-> idx + 1, production |-> NoProduction,
                     printed |-> <<Row(stk, inp, idx, "Match " \o top)>>, ret |-> "running"]
          ELSE [stack |-> rest, index |-> idx, production |-> NoProduction,
                printed |-> <<Row(stk, inp, idx, "ERROR: Terminal mismatch")>>, ret |-> "None"]
     ELSE IF <<top, current_input_symbol>> \notin DOMAIN table
     THEN [stack |-> rest, index |-> idx, production |-> NoProduction,
           printed |-> <<Row(stk, inp, idx, "ERROR: No matching production")>>, ret |-> "None"]
     ELSE LET prod == table[<<top, current_input_symbol>>]
              pushed == Push(rest, prod)
              row == Row(stk, inp, idx, "Expand " \o ProductionStr(prod))
          IN IF pushed = <<>>
             THEN [stack |-> pushed, index |-> idx, production |-> prod,
                   printed |-> <<row, Line("Parse unsuccessful!")>>, ret |-> "None"]
             ELSE [stack |-> pushed, index |-> idx, production |-> prod,
                   printed |-> <<row>>, ret |-> "running"]

\* a call of parse_with_trace(input_string)
ParseWithTrace ==
  /\ pc = "idle"
  /\ \E tokens \in Inputs : StartSession(tokens)
  /\ printed' = <<>>
  /\ call' = "parse_with_trace"
  /\ calls' = Counted(calls)
  /\ Goto(<<"parse_with_trace">>)
  /\ validation_only' = FALSE
  /\ UNCHANGED cfgVars
  /\ UNCHANGED setVars
  /\ UNCHANGED reportedVars

\* one iteration of the while loop of parse_with_trace
TraceStep ==
  /\ pc = "parse_with_trace"
  /\ steps < MaxSteps
  /\ LET r == TraceBody(parsing_table, input_string, stack, index)
     IN /\ stack' = r.stack
        /\ index' = r.index
        /\ production' = r.production
        /\ printed' = printed \o r.printed
        /\ ret' = r.ret
        /\ pc' = IF r.ret = "running" THEN "parse_with_trace" ELSE "idle"
  /\ steps' = steps + 1
  /\ UNCHANGED <<input_string, first_of_string, call, calls, loop, todo>>
  /\ UNCHANGED cfgVars
  /\ UNCHANGED setVars
  /\ UNCHANGED reportVars

\* ---------------------------------------------------------- specification
Next ==
  \/ ParseGrammarLine
  \/ ParseGrammar
  \/ ComputeFirstOfString
  \/ ValidateGrammar
  \/ PrepareParser
  \/ ComputeFirstSets
  \/ ComputeFollowSets
  \/ BuildParsingTable
  \/ ValidateStep
  \/ DetectFirst
  \/ DetectFollow
  \/ DetectScanStep
  \/ PrepareStep
  \/ ComputeFirstStep
  \/ ComputeFollowStep
  \/ BuildStep
  \/ Parse
  \/ ParseStep
  \/ ParseWithTrace
  \/ TraceStep

Spec == Init /\ [][Next]_vars

\* ================================================================= claims
Idle(name) == pc = "idle" /\ call = name

\* the call that just returned was the first call on the LL1Parser object
FirstCall(name) == Idle(name) /\ calls = 1

\* the indices of the productions whose first body symbol is their head
DirectlyLeftRecursive ==
  {i \in 1..Len(productions) :
     Len(productions[i].right) >= 1 /\ productions[i].right[1] = productions[i].left}

\* the terminals on which production prod is selected, by FIRST of its body
\* and, for a nullable body, FOLLOW of its head
SelectSet(prod) ==
  LET fs == compute_first_of_string(first, prod.right).result
  IN (fs \ {EPS}) \cup (IF EPS \in fs THEN Get(follow, prod.left) ELSE {})

\* the pairs of different productions of one non-terminal selected on one terminal
SelectConflicts ==
  {c \in (1..Len(productions)) \X (1..Len(productions)) \X (terminals \cup {EOI}) :
     /\ c[1] < c[2]
     /\ productions[c[1]] # productions[c[2]]
     /\ productions[c[1]].left = productions[c[2]].left
     /\ c[3] \in SelectSet(productions[c[1]]) \cap SelectSet(productions[c[2]])}

\* C1: in a grammar without direct left recursion where two different
\* productions of A select the same terminal t, validate_grammar on a fresh
\* LL1Parser records a conflict at (A, t) that lists both productions and
\* returns False, and prepare_parser on a fresh LL1Parser returns False.
C1_ConflictReported ==
  /\ (FirstCall("validate_grammar") /\ DirectlyLeftRecursive = {}) =>
        \A c \in SelectConflicts :
          LET key == <<productions[c[1]].left, c[3]>>
          IN /\ ret = "False"
             /\ key \in DOMAIN ambiguous_entries
             /\ {productions[c[1]], productions[c[2]]} \subseteq Range(ambiguous_entries[key])
  /\ (FirstCall("prepare_parser") /\ DirectlyLeftRecursive = {} /\ SelectConflicts # {}) =>
        ret = "False"

\* C2: parse returns True only with the stack empty and every input token,
\* the appended '$' included, consumed; a run where the stack empties with
\* input left, or the input runs out with the stack non-empty, returns False
\* and raises nothing.
C2_AcceptOnlyAtEnd ==
  Idle("parse") =>
    /\ ret \in {"True", "False"}
    /\ ret = "True" => (stack = <<>> /\ index = Len(input_string))
    /\ (stack = <<>> /\ index < Len(input_string)) => ret = "False"

\* A -> B ... with B a non-terminal: A's production begins with B
BeginsWith ==
  {e \in non_terminals \X non_terminals :
     \E i \in 1..Len(productions) :
        /\ productions[i].left = e[1]
        /\ Len(productions[i].right) >= 1
        /\ productions[i].right[1] = e[2]}

\* the pairs joined by a chain of at most n such steps (n >= 1)
RECURSIVE Chains(_)
Chains(n) ==
  IF n <= 1 THEN BeginsWith
  ELSE LET R == Chains(n - 1)
       IN R \cup {e \in non_terminals \X non_terminals :
                    \E m \in non_terminals : <<e[1], m>> \in R /\ <<m, e[2]>> \in BeginsWith}

\* some non-terminal reaches itself through a nonempty chain
LeftRecursive ==
  \E A \in non_terminals : <<A, A>> \in Chains(Cardinality(non_terminals))

\* C3: for a grammar in which some non-terminal reaches itself through a
\* nonempty chain of productions each beginning with a non-terminal,
\* validate_grammar returns False, and prepare_parser returns False without
\* running build_parsing_table, so that parsing_table stays empty.
C3_IndirectRecursionRejected ==
  /\ (FirstCall("validate_grammar") /\ LeftRecursive) => ret = "False"
  /\ (FirstCall("prepare_parser") /\ LeftRecursive) =>
        (ret = "False" /\ parsing_table = EmptyDict)

\* the directly left-recursive productions in grammar order
RECURSIVE FlaggedFrom(_)
FlaggedFrom(i) ==
  IF i > Len(productions) THEN <<>>
  ELSE IF i \in DirectlyLeftRecursive THEN <<productions[i]>> \o FlaggedFrom(i + 1)
  ELSE FlaggedFrom(i + 1)

\* C4: for a grammar with a production whose first body symbol is its head,
\* validate_grammar flags exactly those productions and returns False, and
\* prepare_parser returns False; on a fresh LL1Parser the parsing table is
\* left empty.
C4_DirectRecursionRejected ==
  (DirectlyLeftRecursive # {} /\ pc = "idle" /\ call \in {"validate_grammar", "prepare_parser"}) =>
    /\ ret = "False"
    /\ verdict = "False"
    /\ direct_left_recursive = FlaggedFrom(1)
    /\ calls = 1 => parsing_table = EmptyDict

\* C4 witness: prepare_parser has returned False on the test grammar
\* S -> a S b | b S a | S S | e with S -> S S flagged and no table built
C4_Witness ==
  /\ FirstCall("prepare_parser")
  /\ productions = <<Production("S", <<"a", "S", "b">>), Production("S", <<"b", "S", "a">>),
                     Production("S", <<"S", "S">>), Production("S", <<"e">>)>>
  /\ ret = "False"
  /\ direct_left_recursive = <<Production("S", <<"S", "S">>)>>
  /\ parsing_table = EmptyDict

\* the lines parse_with_trace prints when it stops
StopLines ==
  {"Parse successful!", "Parse unsuccessful!",
   "ERROR: Terminal mismatch", "ERROR: No matching production"}

\* the rows of the printed trace: one per loop iteration
TraceRows == SelectSeq(printed, LAMBDA r : r.action \notin {"Parse successful!", "Parse unsuccessful!"})

\* C5: on the same table and input, parse_with_trace ends in 'Parse
\* successful!' exactly when parse returns True and in an error or 'Parse
\* unsuccessful!' exactly when parse returns False, and while both run they
\* go through the same (stack, cursor) states.
C5_TraceAgreesWithParse ==
  (call = "parse" /\ printed # <<>>) =>
    LET last == printed[Len(printed)].action
    IN /\ (pc = "parse" /\ steps < Len(TraceRows)) =>
            /\ TraceRows[steps + 1].stack = Reverse(stack)
            /\ TraceRows[steps + 1].input = SubSeq(input_string, index + 1, Len(input_string))
       /\ (pc = "idle" /\ last \in StopLines) =>
            /\ ret = "True" <=> last = "Parse successful!"
            /\ ret = "False" <=> last # "Parse successful!"

\* FIRST of a non-terminal by the full left-to-right walk of its bodies
FirstByWalk(X) ==
  UNION {compute_first_of_string(first, productions[i].right).result :
           i \in {j \in 1..Len(productions) : productions[j].left = X}}

\* C6: when compute_first_sets has terminated, first[X] of every non-terminal
\* X is the union over the productions X -> body of FIRST-of-string(body)
\* computed by the full walk of the body.
C6_FirstIsFixedPoint ==
  Idle("compute_first_sets") =>
    \A X \in non_terminals : Get(first, X) = FirstByWalk(X)

\* C7: during and after build_parsing_table no write replaces the production
\* stored at an occupied key: the first production written stays.
C7_FirstWriteWins ==
  [][\A k \in DOMAIN parsing_table :
        k \in DOMAIN parsing_table' /\ parsing_table'[k] = parsing_table[k]]_vars

\* C8: in a sequence of validate_grammar and prepare_parser calls on one
\* LL1Parser object (no other call made, the grammar ingested once), every
\* validate_grammar call, the one inside prepare_parser included, returns the
\* verdict of the call before it.
C8_ValidateIdempotent ==
  [][(validation_only /\ verdict # "none") => verdict' = verdict]_vars

\* the FIRST sets, FOLLOW sets and LL(1) table of the expression grammar
ExprFirst ==
  [X \in {"E", "T", "F", "EREST", "TREST"} |->
     IF X = "EREST" THEN {"+", EPS} ELSE IF X = "TREST" THEN {"*", EPS} ELSE {"(", "num"}]

ExprFollow ==
  [X \in {"E", "T", "F", "EREST", "TREST"} |->
     IF X \in {"E", "EREST"} THEN {EOI, ")"}
     ELSE IF X \in {"T", "TREST"} THEN {"+", EOI, ")"}
     ELSE {"*", "+", EOI, ")"}]

ExprTable ==
  LET pE == Production("E", <<"T", "EREST">>)
      pE1 == Production("EREST", <<"+", "T", "EREST">>)
      pE2 == Production("EREST", <<EPS>>)
      pT == Production("T", <<"F", "TREST">>)
      pT1 == Production("TREST", <<"*", "F", "TREST">>)
      pT2 == Production("TREST", <<EPS>>)
      pF1 == Production("F", <<"(", "E", ")">>)
      pF2 == Production("F", <<"num">>)
  IN (<<"E", "(">> :> pE) @@ (<<"E", "num">> :> pE)
     @@ (<<"EREST", "+">> :> pE1) @@ (<<"EREST", EOI>> :> pE2) @@ (<<"EREST", ")">> :> pE2)
     @@ (<<"T", "(">> :> pT) @@ (<<"T", "num">> :> pT)
     @@ (<<"TREST", "*">> :> pT1) @@ (<<"TREST", "+">> :> pT2)
     @@ (<<"TREST", EOI>> :> pT2) @@ (<<"TREST", ")">> :> pT2)
     @@ (<<"F", "(">> :> pF1) @@ (<<"F", "num">> :> pF2)

\* the tokens of the running or finished parse call
Tokens == SubSeq(input_string, 1, Len(input_string) - 1)

\* C9: for the expression grammar, build_parsing_table after the FIRST and
\* FOLLOW sets are complete gives the LL(1) table; with it parse returns True
\* for 'num + num * num' and '( num + num ) * num' and False for
\* 'num * num +', a production with body ε is only expanded on a lookahead in
\* FOLLOW of its head, and ε is never on the stack.
C9_ExpressionGrammar ==
  grammar_text = ExprText =>
    /\ (/\ Idle("build_parsing_table")
        /\ \A X \in non_terminals : Get(first, X) = ExprFirst[X] /\ Get(follow, X) = ExprFollow[X])
         => parsing_table = ExprTable
    /\ (call = "parse" /\ parsing_table = ExprTable) =>
         /\ (pc = "idle" /\ Tokens = <<"num", "+", "num", "*", "num">>) => ret = "True"
         /\ (pc = "idle" /\ Tokens = <<"(", "num", "+", "num", ")", "*", "num">>) => ret = "True"
         /\ (pc = "idle" /\ Tokens = <<"num", "*", "num", "+">>) => ret = "False"
         /\ EPS \notin Range(stack)
         /\ production.right = <<EPS>> =>
              input_string[index + 1] \in Get(follow, production.left)

\* C9 witness: parse has returned True for 'num + num * num' with the LL(1)
\* table of the expression grammar
C9_Witness ==
  /\ grammar_text = ExprText
  /\ parsing_table = ExprTable
  /\ Idle("parse")
  /\ Tokens = <<"num", "+", "num", "*", "num">>
  /\ ret = "True"
  /\ stack = <<>>

\* C10: in every state during and after compute_follow_sets every FOLLOW set
\* holds only input terminals and '$', never the empty-marker ε.
C10_FollowWithoutEpsilon ==
  \A A \in DOMAIN follow : follow[A] \subseteq ((terminals \ {EPS}) \cup {EOI})

\* the symbols that occur as a production head or in a production body
OccurringSymbols ==
  UNION {{productions[k].left} \cup Range(productions[k].right) : k \in 1..Len(productions)}

\* C11: after every line parse_grammar has ingested, cfg.terminals and
\* cfg.non_terminals are disjoint and every symbol occurring as a head or in
\* a body belongs to exactly one of the two sets.
C11_SymbolsClassifiedOnce ==
  /\ terminals \cap non_terminals = {}
  /\ \A s \in OccurringSymbols : (s \in terminals) # (s \in non_terminals)

\* The parsing loop at lookahead t with symbol X on top of the stack goes
\* through the expansion branch: X is no terminal, not '$', and has an entry.
Expands(X, t) == X \notin terminals /\ X # EOI /\ <<X, t>> \in DOMAIN parsing_table

\* The symbols that, once on top at lookahead t, are gone from the stack
\* after finitely many expansions with nothing pushed left: the body is
\* ['ε'] (nothing is pushed), or every symbol pushed is itself such a symbol
\* (an empty body included).  V is the set found so far.
RECURSIVE VanishesFrom(_, _, _)
VanishesFrom(V, t, n) ==
  LET more == {X \in non_terminals :
                 /\ Expands(X, t)
                 /\ \/ parsing_table[<<X, t>>].right = <<EPS>>
                    \/ Range(parsing_table[<<X, t>>].right) \subseteq V}
  IN IF n = 0 \/ more \subseteq V THEN V ELSE VanishesFrom(V \cup more, t, n - 1)

Vanishes(t) == VanishesFrom({}, t, Cardinality(non_terminals))

\* The symbols that, once on top at lookahead t, bring the loop after finitely
\* many expansions to an iteration that is no expansion (a terminal or '$'
\* compared with the input, or a missing table entry): the symbol itself, or
\* the first pushed symbol that does not vanish.  R is the set found so far.
RECURSIVE LeavesFrom(_, _, _)
LeavesFrom(R, t, n) ==
  LET more == {X \in non_terminals :
                 /\ Expands(X, t)
                 /\ LET right == parsing_table[<<X, t>>].right
                    IN /\ right # <<EPS>>
                       /\ \E i \in 1..Len(right) :
                            /\ right[i] \in R \/ ~Expands(right[i], t)
                            /\ \A j \in 1..(i - 1) : right[j] \in Vanishes(t)}
  IN IF n = 0 \/ more \subseteq R THEN R ELSE LeavesFrom(R \cup more, t, n - 1)

LeavesExpansion(t) == LeavesFrom({}, t, Cardinality(non_terminals))

\* parse from the stack ['$', X] at lookahead t goes through the expansion
\* branch for ever: X is expanded, and the expansions neither clear X off the
\* stack (then '$' is compared) nor reach an iteration that is no expansion.
ExpandsForever(X, t) ==
  Expands(X, t) /\ X \notin Vanishes(t) /\ X \notin LeavesExpansion(t)

\* C12: when prepare_parser has returned True, a following call of parse or
\* parse_with_trace terminates with a verdict on every token sequence: it
\* never starts from a configuration in which it expands non-terminals
\* forever without consuming an input token.
C12_ParsingTerminates ==
  [][(Idle("prepare_parser") /\ ret = "True" /\ pc' \in {"parse", "parse_with_trace"})
       => ~ExpandsForever(start_symbol, input_string'[1])]_vars

====
